---- MODULE Spec2Model ----
(***************************************************************************)
(* devkill: the streaming scan producer (runScanStream), the Bubble Tea    *)
(* controller (model.Update) and the sequential delete pipeline.           *)
(*                                                                         *)
(* A path string is modelled by its split on the separator "/":            *)
(*   ""      = <<"">>          "."    = <<".">>       "/"  = <<"", "">>       *)
(*   "/etc"  = <<"", "etc">>   "a/b"  = <<"a", "b">>                         *)
(* Go slices are 0-based, TLA+ sequences 1-based: Go's q[i] is q[i + 1].   *)
(***************************************************************************)
EXTENDS Integers, Sequences, FiniteSets, Bags, TLC

\* ------------------------------------------------------------------ bounds
\* Number of scan generations the model lets the user start (rescans are
\* unbounded in the program).
MaxScanID == 2

\* Number of recalculation commands that may be outstanding at once.
MaxRecalc == 1

\* Number of components of the candidate paths handed to deleteCmd.
MaxComps == 3

\* Number of rows of the row sets handed to sortRows.
MaxSortRows == 3

\* Largest value of the --depth flag taken.
MaxDepthFlag == 2

\* Number of times the environment may leave the plain course in one run:
\* a file system failure during the walk, the 200ms progress throttle found
\* elapsed, a directory found with another size at a recalculation.
MaxEnvEvents == 1

\* ------------------------------------------------------- program constants
\* ScanOptions.MaxDepth: 0 = unlimited.
MaxDepth == 0

\* ------------------------------------------------------------- file system
\* The scanned tree in the lexical pre-order in which fs.WalkDir visits it.
\* size is what lstat reports for the entry: for a symbolic link the length
\* of the name it holds.
Tree ==
  << [path |-> <<".">>,                           kind |-> "dir",  size |-> 0],
     [path |-> <<"node_modules">>,                kind |-> "dir",  size |-> 0],
     [path |-> <<"node_modules", "a">>,           kind |-> "file", size |-> 1],
     [path |-> <<"node_modules", "l">>,           kind |-> "symlink", size |-> 1],
     [path |-> <<"node_modules", "target">>,      kind |-> "dir",  size |-> 0],
     [path |-> <<"node_modules", "target", "b">>, kind |-> "file", size |-> 2],
     [path |-> <<"target">>,                      kind |-> "dir",  size |-> 0],
     [path |-> <<"target", "c">>,                 kind |-> "file", size |-> 2] >>

\* ScanOptions.Targets: the catalog names present in the tree.
Targets == {"node_modules", "target"}

\* ScanOptions.SkipDirs
SkipDirs == {".git", ".hg", ".svn"}

RootPath == <<".">>

\* ------------------------------------------------------------ path helpers
Last(s) == s[Len(s)]

Front(s) == SubSeq(s, 1, Len(s) - 1)

IsPrefix(p, q) == Len(p) <= Len(q) /\ SubSeq(q, 1, Len(p)) = p

\* entry.Name(): the base name of a walked path.
BaseName(path) == Last(path)

\* fs.WalkDir semantics: path q lies in the subtree rooted at p.
InSubtree(p, q) == p = RootPath \/ IsPrefix(p, q)

\* filepath.Clean on the component representation.
RECURSIVE CleanComps(_, _, _)
CleanComps(comps, rooted, out) ==
  IF comps = <<>> THEN out
  ELSE LET c == Head(comps)
           rest == Tail(comps)
       IN  IF c = "" \/ c = "." THEN CleanComps(rest, rooted, out)
           ELSE IF c = ".."
             THEN IF out # <<>> /\ Last(out) # ".."
                    THEN CleanComps(rest, rooted, Front(out))
                    ELSE IF rooted THEN CleanComps(rest, rooted, out)
                         ELSE CleanComps(rest, rooted, Append(out, ".."))
             ELSE CleanComps(rest, rooted, Append(out, c))

IsRooted(path) == Len(path) >= 2 /\ path[1] = ""

Clean(path) ==
  LET rooted == IsRooted(path)
      out == CleanComps(path, rooted, <<>>)
  IN  IF rooted THEN (IF out = <<>> THEN <<"", "">> ELSE <<"">> \o out)
      ELSE IF out = <<>> THEN <<".">> ELSE out

\* filepath.IsAbs on Unix
IsAbs(path) == IsRooted(path)

\* validateDeletePath without the refusal of the root
validateDeletePathKeepsRoot(relPath) ==
  IF relPath = <<"">> THEN [ok |-> FALSE, path |-> <<"">>]
  ELSE LET cleaned == Clean(relPath)
       IN  IF IsAbs(cleaned) THEN [ok |-> FALSE, path |-> <<"">>]
           ELSE [ok |-> TRUE, path |-> cleaned]

\* validateDeletePath: [ok, path]
validateDeletePath(relPath) ==
  IF relPath = <<"">> THEN [ok |-> FALSE, path |-> <<"">>]
  ELSE LET cleaned == Clean(relPath)
       IN  IF cleaned = <<".">> \/ cleaned = <<"", "">>
             THEN [ok |-> FALSE, path |-> <<"">>]
           ELSE IF IsAbs(cleaned) THEN [ok |-> FALSE, path |-> <<"">>]
           ELSE [ok |-> TRUE, path |-> cleaned]

\* relativeDepth: the number of separators in the walked path.
relativeDepth(relPath) ==
  IF relPath = <<".">> \/ relPath = <<"">> THEN 0 ELSE Len(relPath) - 1

\* dirSize on success: every non-directory entry under relPath adds the size
\* its Info() reports.
RECURSIVE SumSizes(_, _)
SumSizes(relPath, i) ==
  IF i > Len(Tree) THEN 0
  ELSE (IF InSubtree(relPath, Tree[i].path) /\ Tree[i].kind # "dir"
          THEN Tree[i].size ELSE 0) + SumSizes(relPath, i + 1)

dirSize(relPath) == SumSizes(relPath, 1)

\* fs.SkipDir returned for the directory at position i: the walk continues
\* at the first later entry outside its subtree.
RECURSIVE SkipSubtree(_, _)
SkipSubtree(i, j) ==
  IF j > Len(Tree) THEN j
  ELSE IF InSubtree(Tree[i].path, Tree[j].path) THEN SkipSubtree(i, j + 1)
  ELSE j


\* ---------------------------------------------------- string order (sort)
\* strings.ToLower on a path component.
ToLower(name) ==
  CASE name = "Target" -> "target"
    [] name = "Node_Modules" -> "node_modules"
    [] OTHER -> name

\* The lower-case component names of the tree in byte order.
NameOrder == <<"a", "b", "c", "l", "node_modules", "target">>

NameRank(name) ==
  IF \E i \in 1..Len(NameOrder) : NameOrder[i] = ToLower(name)
    THEN CHOOSE i \in 1..Len(NameOrder) : NameOrder[i] = ToLower(name)
    ELSE 0

\* strings.ToLower(p) < strings.ToLower(q) for paths of tree names
RECURSIVE PathLess(_, _)
PathLess(p, q) ==
  IF q = <<>> THEN FALSE
  ELSE IF p = <<>> THEN TRUE
  ELSE IF NameRank(Head(p)) # NameRank(Head(q))
    THEN NameRank(Head(p)) < NameRank(Head(q))
  ELSE PathLess(Tail(p), Tail(q))

\* --------------------------------------------------------------- variables
VARIABLES
  \* model (the controller)
  rows, loading, err, warnings, sortMode, confirm, confirmDeletes,
  scanID, scanStream, scanVisited, scanFound,
  deleting, deleteQueue, deleteTotal, deleteDone, deleteErrors,
  quitted,         \* Update returned tea.Quit
  baseCancelled,   \* baseCancel() was called
  scanCancelled,   \* the generations whose scanCancel() was called
  \* commands and goroutines
  startCmds,       \* scanStartCmd closures issued and not yet run
  prod,            \* runScanStream goroutine of each generation
  recvs,           \* waitScanMsg closures blocked on each generation's channel
  inbox,           \* scan messages returned by commands, not yet passed to Update
  delCmds,         \* deleteCmd closures issued, result not yet passed to Update
  recalcCmds,      \* recalcSizeCmd closures issued, result not yet passed to Update
  \* environment
  env,             \* the environment events this run may still meet
  \* history
  batch,           \* the path list the running (or last) batch started with
  dispatched,      \* the paths deleteCmd was issued for in that batch
  consumed,        \* the result paths applyDeleteResult took in that batch
  failures,        \* the results with an error taken in the running (or last) batch
  batchGen,        \* the scanID at which the running batch took its paths
  \* deleteCmd taken alone
  candidate,       \* the relPath a deleteCmd closure was made for
  delResult,       \* the deleteResultMsg that closure returned
  removeCalls,     \* the paths handed to root.RemoveAll
  \* sortRows taken alone
  sortArg,         \* the rows and the sort mode sortRows is entered with
  sortRes,         \* the rows it left, and how often it was applied
  \* the callback's directory checks taken alone
  depthArg,        \* the directory the callback is entered for, and maxDepth
  depthRes         \* what the callback did with it

ctrlVars == <<rows, loading, err, warnings, sortMode, confirm, confirmDeletes,
              scanID, scanStream, scanVisited, scanFound,
              deleting, deleteQueue, deleteTotal, deleteDone, deleteErrors,
              quitted, baseCancelled, scanCancelled>>

scanVars == <<rows, loading, err, warnings, scanID, scanStream, scanVisited,
              scanFound, scanCancelled>>

deleteVars == <<deleting, deleteQueue, deleteTotal, deleteDone, deleteErrors,
                delCmds, batch, dispatched, consumed, failures, batchGen>>

asyncVars == <<startCmds, prod, recvs, inbox, delCmds, recalcCmds>>

histVars == <<batch, dispatched, consumed, failures, batchGen>>

pathVars == <<candidate, delResult, removeCalls>>

sortVars == <<sortArg, sortRes>>

depthVars == <<depthArg, depthRes>>

\* What no step of the program proper writes
frameVars == <<pathVars, sortVars, depthVars>>

vars == <<ctrlVars, asyncVars, histVars, env, frameVars>>

Gens == 1..MaxScanID

\* ---------------------------------------------------------------- messages
NoRow == [RelPath |-> <<>>, SizeBytes |-> 0, Marked |-> FALSE,
          Deleted |-> FALSE, DeleteErr |-> "", gen |-> 0]

NoMsg == [kind |-> "none", ID |-> 0, Row |-> NoRow, Visited |-> 0, Found |-> 0,
          Warnings |-> <<>>, Err |-> "nil", Path |-> <<>>, Size |-> 0]

scanStreamMsg(id) == [NoMsg EXCEPT !.kind = "scanStream", !.ID = id]

scanRowMsg(id, row) == [NoMsg EXCEPT !.kind = "scanRow", !.ID = id, !.Row = row]

scanProgressMsg(id, visited, found) ==
  [NoMsg EXCEPT !.kind = "scanProgress", !.ID = id, !.Visited = visited,
                !.Found = found]

scanFinishedMsg(id, warns, e, visited, found) ==
  [NoMsg EXCEPT !.kind = "scanFinished", !.ID = id, !.Warnings = warns,
                !.Err = e, !.Visited = visited, !.Found = found]

deleteResultMsg(path, e) ==
  [NoMsg EXCEPT !.kind = "deleteResult", !.Path = path, !.Err = e]

recalcSizeMsg(path, size, e) ==
  [NoMsg EXCEPT !.kind = "recalcSize", !.Path = path, !.Size = size, !.Err = e]

ScanKinds == {"scanStream", "scanRow", "scanProgress", "scanFinished"}

One(x) == SetToBag({x})

\* ------------------------------------------------------------------- Init
confirmState0 == [active |-> FALSE, action |-> "confirmNone", paths |-> <<>>]

IdleProducer ==
  [pc |-> "idle", pos |-> 1, visited |-> 0, found |-> 0, warnings |-> <<>>,
   walkErr |-> "nil", sawCancel |-> "no", finSent |-> 0, late |-> {},
   afterFin |-> {}]

\* NewModel followed by model.Init: generation 1, scanning, the first
\* scanStartCmd issued.
\* A producer goroutine of a process that has exited
ExitedProducer == [IdleProducer EXCEPT !.pc = "exited"]

InitModel ==
  /\ rows = <<>>
  /\ loading = TRUE
  /\ err = "nil"
  /\ warnings = <<>>
  /\ sortMode = "sortBySizeDesc"
  /\ confirm = confirmState0
  /\ confirmDeletes \in BOOLEAN
  /\ scanID = 1
  /\ scanStream = 0
  /\ scanVisited = 0
  /\ scanFound = 0
  /\ deleting = FALSE
  /\ deleteQueue = <<>>
  /\ deleteTotal = 0
  /\ deleteDone = 0
  /\ deleteErrors = 0
  /\ quitted = FALSE
  /\ baseCancelled = FALSE
  /\ scanCancelled = {}
  /\ startCmds = {1}
  /\ prod = [g \in Gens |-> IdleProducer]
  /\ recvs = [g \in Gens |-> 0]
  /\ inbox = EmptyBag
  /\ delCmds = EmptyBag
  /\ recalcCmds = EmptyBag
  /\ batch = <<>>
  /\ dispatched = <<>>
  /\ consumed = <<>>
  /\ failures = 0
  /\ batchGen = 0
  /\ delResult = NoMsg
  /\ removeCalls = {}
  /\ sortRes = [rows |-> <<>>, n |-> 0]
  /\ depthRes = "none"

NoSort == [rows |-> <<>>, mode |-> "sortBySizeDesc"]

NoDir == [path |-> RootPath, maxDepth |-> MaxDepth]

\* env counts the environment events still allowed.
Init ==
  /\ InitModel
  /\ env = MaxEnvEvents
  /\ candidate = <<>>
  /\ sortArg = NoSort
  /\ depthArg = NoDir


\* ------------------------------------------------ the scan producer
\* ctx.Err() != nil for the scan context of generation g (a child of baseCtx)
CtxCancelled(g) == baseCancelled \/ g \in scanCancelled

\* bubbletea runs nothing of the program once Update has returned tea.Quit.
Running == ~quitted

SetProd(g, p) == prod' = [prod EXCEPT ![g] = p]

\* scanStartCmd's closure: makes the channel, starts runScanStream and
\* returns scanStreamMsg.  opts.RootHandle is never nil (main exits when
\* os.OpenRoot fails), so the producer starts at the walk.
ScanStartRun(g) ==
  /\ Running
  /\ g \in startCmds
  /\ startCmds' = startCmds \ {g}
  /\ SetProd(g, [IdleProducer EXCEPT !.pc = "walk"])
  /\ inbox' = inbox (+) One(scanStreamMsg(g))
  /\ UNCHANGED <<ctrlVars, recvs, delCmds, recalcCmds, histVars, env>>
  /\ UNCHANGED frameVars

\* fs.WalkDir returned e to runScanStream, which goes on at line 113.
\* sawCancel records where ctx.Err() was seen: in the callback ("walk"), in
\* dirSize or in the callback after a failed listing ("readDir").
WalkReturns(p, e) ==
  [p EXCEPT !.walkErr = e, !.pc = "finalProgress", !.pos = 0,
            !.sawCancel = IF e = "canceled" THEN p.pc ELSE "no"]

\* The walk goes on at entry n; fs.WalkDir returns nil when nothing is left.
WalkTo(p, n) ==
  IF n > Len(Tree) THEN WalkReturns(p, "nil")
  ELSE [p EXCEPT !.pos = n, !.pc = "walk"]

\* A walk that descends into the directory all the same
SkipDirDescends(p) == WalkTo(p, p.pos + 1)

\* fs.SkipDir for the directory at p.pos: the walk goes on behind its subtree.
SkipDir(p) == WalkTo(p, SkipSubtree(p.pos, p.pos + 1))

\* The callback for a directory after sendProgress(false): skip set,
\* symbolic link, depth and catalog checks (lines 71-85).  A DirEntry read
\* from a directory never reports a symbolic link as a directory.
DirVerdict(path, maxDepth) ==
  LET name == BaseName(path)
  IN  IF name \in SkipDirs THEN "skip"
      ELSE IF maxDepth > 0 /\ relativeDepth(path) > maxDepth THEN "skip"
      ELSE IF name \in Targets THEN "match"
      ELSE "descend"

DirChecks(p) ==
  LET verdict == DirVerdict(Tree[p.pos].path, MaxDepth)
  IN  CASE verdict = "skip" -> SkipDir(p)
        [] verdict = "match" -> [p EXCEPT !.pc = "dirSize"]
        [] verdict = "descend" -> [p EXCEPT !.pc = "readDir"]

\* fs.WalkDir lists the directory the callback accepted (pc "readDir");
\* when that fails it calls the callback again with the error.
\* errors.Is(err, fs.ErrPermission) (lines 61, 88)
IsPermissionNever(e) == FALSE

IsPermission(e) == e = "perm"

Faults == IF env > 0 THEN {"perm", "io"} ELSE {}

UseFault(outcome) == env' = IF outcome = "ok" THEN env ELSE env - 1

\* The WalkDir callback is entered for the entry at pos with err = nil.
WalkEnter(g) ==
  /\ Running
  /\ prod[g].pc = "walk"
  /\ LET p == prod[g]
     IN  IF CtxCancelled(g)
           THEN SetProd(g, WalkReturns(p, "canceled")) /\ UNCHANGED env
         ELSE IF Tree[p.pos].kind = "dir"
           THEN LET q == [p EXCEPT !.visited = @ + 1]
                IN  \/ \* time.Since(lastProgress) > 200ms
                       /\ env > 0
                       /\ env' = env - 1
                       /\ SetProd(g, [q EXCEPT !.pc = "sendProgress"])
                    \/ /\ SetProd(g, DirChecks(q))
                       /\ UNCHANGED env
         ELSE SetProd(g, WalkTo(p, p.pos + 1)) /\ UNCHANGED env
  /\ UNCHANGED <<ctrlVars, startCmds, recvs, inbox, delCmds, recalcCmds, histVars>>
  /\ UNCHANGED frameVars

\* dirSize of a matched directory (lines 86-94): it checks ctx at every
\* entry; the file system decides between success and the two failures.
DirSizeStep(g) ==
  /\ Running
  /\ prod[g].pc = "dirSize"
  /\ LET p == prod[g]
     IN  IF CtxCancelled(g)
           THEN SetProd(g, WalkReturns(p, "canceled")) /\ UNCHANGED env
         ELSE \E outcome \in {"ok"} \cup Faults :
           /\ UseFault(outcome)
           /\ IF outcome = "ok"
                THEN SetProd(g, [p EXCEPT !.found = @ + 1, !.pc = "sendRow"])
              ELSE IF IsPermission(outcome)
                THEN SetProd(g, SkipDir([p EXCEPT !.warnings =
                                           Append(@, Tree[p.pos].path)]))
              ELSE SetProd(g, WalkReturns(p, outcome))
  /\ UNCHANGED <<ctrlVars, startCmds, recvs, inbox, delCmds, recalcCmds, histVars>>
  /\ UNCHANGED frameVars

\* fs.WalkDir lists the directory; on failure the callback runs again
\* with the error (lines 57-66).
ReadDirStep(g) ==
  /\ Running
  /\ prod[g].pc = "readDir"
  /\ LET p == prod[g]
     IN  \E outcome \in {"ok"} \cup Faults :
           /\ UseFault(outcome)
           /\ IF outcome = "ok"
                THEN SetProd(g, WalkTo(p, p.pos + 1))
              ELSE IF CtxCancelled(g) THEN SetProd(g, WalkReturns(p, "canceled"))
              ELSE IF IsPermission(outcome)
                THEN SetProd(g, SkipDir([p EXCEPT !.warnings =
                                           Append(@, Tree[p.pos].path)]))
              ELSE SetProd(g, WalkReturns(p, outcome))
  /\ UNCHANGED <<ctrlVars, startCmds, recvs, inbox, delCmds, recalcCmds, histVars>>
  /\ UNCHANGED frameVars

\* lines 113-115
ScanErrKeepsCancel(walkErr) == walkErr

ScanErr(walkErr) == IF walkErr = "canceled" THEN "nil" ELSE walkErr

\* The message the producer is blocked sending at its pc.
Outgoing(g) ==
  LET p == prod[g]
  IN  CASE p.pc \in {"sendProgress", "sendRowProgress", "finalProgress"} ->
             scanProgressMsg(g, p.visited, p.found)
        [] p.pc = "sendRow" ->
             scanRowMsg(g, [NoRow EXCEPT !.RelPath = Tree[p.pos].path,
                                         !.SizeBytes = dirSize(Tree[p.pos].path),
                                         !.gen = g])
        [] p.pc = "sendFinished" ->
             scanFinishedMsg(g, p.warnings, ScanErr(p.walkErr), p.visited, p.found)

\* After out <- scanFinishedMsg the function returns and the deferred
\* close(out) runs.
AfterFinishedLoops(p) == [p EXCEPT !.pc = "finalProgress", !.finSent = @ + 1]

\* (the locals of the returned goroutine are gone)
AfterFinished(p) ==
  [IdleProducer EXCEPT !.pc = "closed", !.finSent = p.finSent + 1,
                       !.sawCancel = p.sawCancel, !.late = p.late,
                       !.afterFin = p.afterFin]

\* Where the producer continues once its send has been taken.
AfterSend(p) ==
  CASE p.pc = "sendProgress" -> DirChecks(p)
    [] p.pc = "sendRow" -> [p EXCEPT !.pc = "sendRowProgress"]
    [] p.pc = "sendRowProgress" -> SkipDir(p)
    [] p.pc = "finalProgress" -> [p EXCEPT !.pc = "sendFinished"]
    [] p.pc = "sendFinished" -> AfterFinished(p)

SendPcs == {"sendProgress", "sendRow", "sendRowProgress", "finalProgress",
            "sendFinished"}

\* The unbuffered channel: a send completes only together with a blocked
\* waitScanMsg receive, whose closure then returns the message.
Handoff(g) ==
  /\ Running
  /\ prod[g].pc \in SendPcs
  /\ recvs[g] > 0
  /\ recvs' = [recvs EXCEPT ![g] = @ - 1]
  /\ inbox' = inbox (+) One(Outgoing(g))
  /\ LET m == Outgoing(g)
         p == prod[g]
         q == [p EXCEPT !.late = IF p.sawCancel # "no" THEN @ \cup {m.kind} ELSE @,
                        !.afterFin = IF p.finSent > 0 THEN @ \cup {m.kind} ELSE @]
     IN  SetProd(g, AfterSend(q))
  /\ UNCHANGED <<ctrlVars, startCmds, delCmds, recalcCmds, histVars, env>>
  /\ UNCHANGED frameVars


\* ------------------------------------------------------ controller helpers
\* msg.ID != m.scanID (lines 334, 340, 351, 360)
StaleIDNever(id) == FALSE

StaleID(id) == id # scanID

\* an Update that adds no waitScanMsg
IssueRecvNever(ch) == UNCHANGED recvs

\* an Update that adds waitScanMsg twice
IssueRecvTwice(ch) == recvs' = [recvs EXCEPT ![ch] = @ + 2]

\* waitScanMsg(ch) is added to the commands of this Update
IssueRecv(ch) == recvs' = [recvs EXCEPT ![ch] = @ + 1]

\* the comparator of sortRows
Less(left, right, mode) ==
  IF left.Deleted # right.Deleted THEN ~left.Deleted
  ELSE CASE mode = "sortBySizeAsc" ->
              IF left.SizeBytes = right.SizeBytes
                THEN PathLess(left.RelPath, right.RelPath)
                ELSE left.SizeBytes < right.SizeBytes
         [] mode = "sortByNameAsc" -> PathLess(left.RelPath, right.RelPath)
         [] OTHER ->
              IF left.SizeBytes = right.SizeBytes
                THEN PathLess(left.RelPath, right.RelPath)
                ELSE left.SizeBytes > right.SizeBytes

\* an insertion that puts x before the elements it ties with
InsertBeforeTies(s, x, mode) ==
  IF \E i \in 1..Len(s) : ~Less(s[i], x, mode)
    THEN LET i == CHOOSE k \in 1..Len(s) :
                    /\ ~Less(s[k], x, mode)
                    /\ \A j \in 1..(k - 1) : Less(s[j], x, mode)
         IN  SubSeq(s, 1, i - 1) \o <<x>> \o SubSeq(s, i, Len(s))
    ELSE Append(s, x)

\* sort.SliceStable: x goes before the first element it is less than.
InsertStable(s, x, mode) ==
  IF \E i \in 1..Len(s) : Less(x, s[i], mode)
    THEN LET i == CHOOSE k \in 1..Len(s) :
                    /\ Less(x, s[k], mode)
                    /\ \A j \in 1..(k - 1) : ~Less(x, s[j], mode)
         IN  SubSeq(s, 1, i - 1) \o <<x>> \o SubSeq(s, i, Len(s))
    ELSE Append(s, x)

RECURSIVE SortFrom(_, _, _)
SortFrom(done, rest, mode) ==
  IF rest = <<>> THEN done
  ELSE SortFrom(InsertStable(done, Head(rest), mode), Tail(rest), mode)

sortRows(rs, mode) == SortFrom(<<>>, rs, mode)

nextSortMode(current) ==
  CASE current = "sortBySizeDesc" -> "sortBySizeAsc"
    [] current = "sortBySizeAsc" -> "sortByNameAsc"
    [] OTHER -> "sortBySizeDesc"

\* findRow: the first index whose RelPath is path, 0 for Go's -1
findRow(path) ==
  IF \E i \in 1..Len(rows) : rows[i].RelPath = path
    THEN CHOOSE i \in 1..Len(rows) :
           /\ rows[i].RelPath = path
           /\ \A j \in 1..(i - 1) : rows[j].RelPath # path
    ELSE 0

\* The table has at most one line per catalog directory of the tree.
CursorPositions ==
  0..(Cardinality({i \in 1..Len(Tree) :
                     Tree[i].kind = "dir" /\ BaseName(Tree[i].path) \in Targets}) - 1)

\* idx := m.table.Cursor() passes the range checks (1-based index)
CursorRow(cursor) == IF cursor >= 0 /\ cursor < Len(rows) THEN cursor + 1 ELSE 0

Take(m) == inbox' = inbox (-) One(m)

\* ------------------------------------------------- Update: scan messages
\* case scanStreamMsg
UpdateScanStream(m) ==
  /\ Running
  /\ BagIn(m, inbox) /\ m.kind = "scanStream"
  /\ Take(m)
  /\ IF StaleID(m.ID) THEN UNCHANGED <<scanStream, recvs>>
     ELSE scanStream' = m.ID /\ IssueRecv(m.ID)
  /\ UNCHANGED <<rows, loading, err, warnings, sortMode, confirm, confirmDeletes,
                 scanID, scanVisited, scanFound, deleting, deleteQueue,
                 deleteTotal, deleteDone, deleteErrors, quitted,
                 baseCancelled, scanCancelled, startCmds, prod, delCmds,
                 recalcCmds, histVars, env>>
  /\ UNCHANGED frameVars

\* case scanRowMsg
UpdateScanRow(m) ==
  /\ Running
  /\ BagIn(m, inbox) /\ m.kind = "scanRow"
  /\ Take(m)
  /\ IF StaleID(m.ID) THEN UNCHANGED <<rows, scanFound, recvs>>
     ELSE /\ rows' = Append(rows, m.Row)
          /\ scanFound' = scanFound + 1
          /\ IF scanStream # 0 THEN IssueRecv(scanStream) ELSE UNCHANGED recvs
  /\ UNCHANGED <<loading, err, warnings, sortMode, confirm, confirmDeletes,
                 scanID, scanStream, scanVisited, deleting, deleteQueue,
                 deleteTotal, deleteDone, deleteErrors, quitted,
                 baseCancelled, scanCancelled, startCmds, prod, delCmds,
                 recalcCmds, histVars, env>>
  /\ UNCHANGED frameVars

\* case scanProgressMsg
UpdateScanProgress(m) ==
  /\ Running
  /\ BagIn(m, inbox) /\ m.kind = "scanProgress"
  /\ Take(m)
  /\ IF StaleID(m.ID) THEN UNCHANGED <<scanVisited, scanFound, recvs>>
     ELSE /\ scanVisited' = m.Visited
          /\ scanFound' = m.Found
          /\ IF scanStream # 0 THEN IssueRecv(scanStream) ELSE UNCHANGED recvs
  /\ UNCHANGED <<rows, loading, err, warnings, sortMode, confirm, confirmDeletes,
                 scanID, scanStream, deleting, deleteQueue,
                 deleteTotal, deleteDone, deleteErrors, quitted,
                 baseCancelled, scanCancelled, startCmds, prod, delCmds,
                 recalcCmds, histVars, env>>
  /\ UNCHANGED frameVars

\* case scanFinishedMsg
UpdateScanFinished(m) ==
  /\ Running
  /\ BagIn(m, inbox) /\ m.kind = "scanFinished"
  /\ Take(m)
  /\ IF StaleID(m.ID)
       THEN UNCHANGED <<rows, loading, err, warnings, scanVisited, scanFound>>
       ELSE /\ loading' = FALSE
            /\ err' = m.Err
            /\ warnings' = m.Warnings
            /\ scanVisited' = m.Visited
            /\ scanFound' = m.Found
            /\ rows' = sortRows(rows, sortMode)
  /\ UNCHANGED <<sortMode, confirm, confirmDeletes, scanID, scanStream,
                 deleting, deleteQueue, deleteTotal, deleteDone, deleteErrors,
                 quitted, baseCancelled, scanCancelled, startCmds, prod,
                 recvs, delCmds, recalcCmds, histVars, env>>
  /\ UNCHANGED frameVars


\* ----------------------------------------------------- the delete pipeline
\* len(paths) == 0 || m.deleting (line 831)
StartDeleteRejectsEmptyOnly(paths) == Len(paths) = 0

StartDeleteRejects(paths) == Len(paths) = 0 \/ deleting

\* startDelete
startDelete(paths) ==
  IF StartDeleteRejects(paths) THEN UNCHANGED deleteVars
  ELSE /\ deleting' = TRUE
       /\ deleteQueue' = paths
       /\ deleteTotal' = Len(paths)
       /\ deleteDone' = 0
       /\ deleteErrors' = 0
       /\ delCmds' = delCmds (+) One(paths[1])
       /\ batch' = paths
       /\ dispatched' = <<paths[1]>>
       /\ consumed' = <<>>
       /\ failures' = 0
       /\ batchGen' = scanID

\* deleteCmd's closure: validate, then root.RemoveAll; the file system
\* decides whether the removal fails.
deleteCmd(relPath, removeErr) ==
  LET v == validateDeletePath(relPath)
  IN  IF ~v.ok THEN deleteResultMsg(relPath, "invalid")
      ELSE deleteResultMsg(v.path, removeErr)

\* lines 800-802
DeletedRowKeepsMark(row) == [row EXCEPT !.Deleted = TRUE, !.DeleteErr = ""]

DeletedRow(row) == [row EXCEPT !.Deleted = TRUE, !.Marked = FALSE, !.DeleteErr = ""]

\* m.deleteQueue[m.deleteDone] (line 823) as a 1-based index
NextIndexRepeats(done) == done

NextIndex(done) == done + 1

\* m.deleteDone++ (line 807): every result counts, failed or not
DoneAfterSuccessOnly(done, e) == IF e = "nil" THEN done + 1 ELSE done

DoneAfter(done, e) == done + 1

\* applyDeleteResult
applyDeleteResult(m) ==
  LET idx == findRow(m.Path)
      failed == idx # 0 /\ m.Err # "nil"
  IN  /\ failures' = IF m.Err # "nil" THEN failures + 1 ELSE failures
      /\ rows' = IF idx = 0 THEN rows
                 ELSE IF m.Err # "nil"
                   THEN [rows EXCEPT ![idx].DeleteErr = m.Err]
                 ELSE [rows EXCEPT ![idx] = DeletedRow(rows[idx])]
      /\ IF ~deleting
           THEN /\ deleteErrors' = IF failed THEN deleteErrors + 1 ELSE deleteErrors
                /\ UNCHANGED <<deleting, deleteQueue, deleteDone, batch,
                               dispatched, consumed, batchGen>>
         ELSE /\ deleteDone' = DoneAfter(deleteDone, m.Err)
              /\ IF DoneAfter(deleteDone, m.Err) >= deleteTotal
                   THEN /\ deleting' = FALSE
                        /\ deleteQueue' = <<>>
                        /\ deleteErrors' = IF failed THEN deleteErrors + 1
                                           ELSE deleteErrors
                        /\ delCmds' = delCmds (-) One(m.Cmd)
                        /\ batch' = <<>>
                        /\ dispatched' = <<>>
                        /\ consumed' = <<>>
                        /\ batchGen' = 0
                   ELSE LET nextPath == deleteQueue[NextIndex(DoneAfter(deleteDone, m.Err))]
                        IN  /\ delCmds' = (delCmds (-) One(m.Cmd)) (+) One(nextPath)
                            /\ dispatched' = Append(dispatched, nextPath)
                            /\ consumed' = Append(consumed, m.Path)
                            /\ deleteErrors' = IF failed THEN deleteErrors + 1
                                               ELSE deleteErrors
                            /\ UNCHANGED <<deleting, deleteQueue, batch, batchGen>>

\* A deleteCmd closure returns and Update handles its deleteResultMsg.  The
\* closure reads and writes nothing of the controller, so its run and the
\* receipt of its message are taken as one step.
UpdateDeleteResult(path) ==
  /\ Running
  /\ BagIn(path, delCmds)
  /\ \E removeErr \in {"nil", "io"} :
       LET m == [Path |-> deleteCmd(path, removeErr).Path,
                 Err |-> deleteCmd(path, removeErr).Err,
                 Cmd |-> path]
       IN  /\ applyDeleteResult(m)
           /\ IF ~deleting THEN delCmds' = delCmds (-) One(path) ELSE TRUE
  /\ UNCHANGED <<loading, err, warnings, sortMode, confirm, confirmDeletes,
                 scanID, scanStream, scanVisited, scanFound, deleteTotal,
                 quitted, baseCancelled, scanCancelled, startCmds, prod,
                 recvs, inbox, recalcCmds, env>>
  /\ UNCHANGED frameVars

\* msg.Err != nil (line 849)
RecalcFailedNever(m) == FALSE

RecalcFailed(m) == m.Err # "nil"

\* applyRecalcResult
applyRecalcResult(m) ==
  LET idx == findRow(m.Path)
  IN  rows' = IF idx = 0 \/ RecalcFailed(m) THEN rows
              ELSE [rows EXCEPT ![idx].SizeBytes = m.Size]

\* A recalcSizeCmd closure (dirSize under baseCtx) returns and Update
\* handles its recalcSizeMsg; the directory may have been emptied or have
\* become unreadable since the scan.
UpdateRecalc(path) ==
  /\ Running
  /\ BagIn(path, recalcCmds)
  /\ recalcCmds' = recalcCmds (-) One(path)
  /\ \E outcome \in {"same", "io"} \cup (IF env > 0 THEN {"emptied"} ELSE {}) :
       /\ env' = IF outcome = "emptied" THEN env - 1 ELSE env
       /\ applyRecalcResult(
            CASE outcome = "same" -> recalcSizeMsg(path, dirSize(path), "nil")
              [] outcome = "emptied" -> recalcSizeMsg(path, 0, "nil")
              [] outcome = "io" -> recalcSizeMsg(path, 0, "io"))
  /\ UNCHANGED <<loading, err, warnings, sortMode, confirm, confirmDeletes,
                 scanID, scanStream, scanVisited, scanFound, deleting,
                 deleteQueue, deleteTotal, deleteDone, deleteErrors,
                 quitted, baseCancelled, scanCancelled, startCmds, prod, recvs,
                 inbox, delCmds, histVars>>
  /\ UNCHANGED frameVars

\* ------------------------------------------------------- Update: tea.KeyMsg
\* While m.confirm.active only y, Y, n, N and esc are looked at (lines
\* 397-410); every other key, the quit keys included, ends at the break and
\* leaves the model as it is.
KeysOpen == Running /\ ~confirm.active

\* case "y", "Y" (line 399)
AnswersYesOrEsc(k) == k \in {"y", "Y", "esc"}

AnswersYes(k) == k \in {"y", "Y"}

\* case "n", "N", "esc" (line 405)
AnswersNo(k) == k \in {"n", "N", "esc"}

\* The key k while m.confirm.active (lines 397-410)
ConfirmKey(k) ==
  /\ Running
  /\ confirm.active
  /\ IF AnswersYes(k)
       THEN /\ confirm' = confirmState0
            /\ startDelete(confirm.paths)
     ELSE IF AnswersNo(k)
       THEN /\ confirm' = confirmState0
            /\ UNCHANGED deleteVars
     ELSE UNCHANGED <<confirm, deleteVars>>
  /\ UNCHANGED <<rows, loading, err, warnings, sortMode, confirmDeletes,
                 scanID, scanStream, scanVisited, scanFound, quitted,
                 baseCancelled, scanCancelled, startCmds, prod, recvs, inbox,
                 recalcCmds, env>>
  /\ UNCHANGED frameVars

\* "y", "Y" during a confirmation
KeyConfirmYes == \E k \in {"y", "Y"} : ConfirmKey(k)

\* "n", "N", "esc" during a confirmation
KeyConfirmNo == \E k \in {"n", "N", "esc"} : ConfirmKey(k)

\* keys.Quit ("q", "ctrl+c"): baseCancel() and tea.Quit (lines 413-417).
\* tea.Quit ends Program.Run and main returns: the process exits and with it
\* every goroutine, channel and undelivered message.  The model value that
\* Run returns is the controller state of this step.
KeyQuit ==
  /\ KeysOpen
  /\ quitted' = TRUE
  /\ baseCancelled' = TRUE
  /\ startCmds' = {}
  /\ prod' = [g \in Gens |-> ExitedProducer]
  /\ recvs' = [g \in Gens |-> 0]
  /\ inbox' = EmptyBag
  /\ delCmds' = EmptyBag
  /\ recalcCmds' = EmptyBag
  /\ batch' = <<>>
  /\ dispatched' = <<>>
  /\ consumed' = <<>>
  /\ batchGen' = 0
  /\ UNCHANGED <<rows, loading, err, warnings, sortMode, confirm, confirmDeletes,
                 scanID, scanStream, scanVisited, scanFound, deleting,
                 deleteQueue, deleteTotal, deleteDone, deleteErrors,
                 scanCancelled, env, failures>>
  /\ UNCHANGED frameVars

\* a rescan that keeps the rows and counters of the scan before
startScanKeepsRows ==
  /\ KeysOpen
  /\ scanID < MaxScanID
  /\ scanCancelled' = scanCancelled \cup {scanID}
  /\ scanID' = scanID + 1
  /\ loading' = TRUE
  /\ err' = "nil"
  /\ warnings' = <<>>
  /\ rows' = rows
  /\ scanVisited' = 0
  /\ scanFound' = scanFound
  /\ startCmds' = startCmds \cup {scanID + 1}
  /\ UNCHANGED <<sortMode, confirm, confirmDeletes, scanStream, deleting,
                 deleteQueue, deleteTotal, deleteDone, deleteErrors,
                 quitted, baseCancelled, prod, recvs, inbox, delCmds,
                 recalcCmds, histVars, env>>
  /\ UNCHANGED frameVars

\* keys.Rescan: startScan
startScan ==
  /\ KeysOpen
  /\ scanID < MaxScanID
  /\ scanCancelled' = scanCancelled \cup {scanID}
  /\ scanID' = scanID + 1
  /\ loading' = TRUE
  /\ err' = "nil"
  /\ warnings' = <<>>
  /\ rows' = <<>>
  /\ scanVisited' = 0
  /\ scanFound' = 0
  /\ startCmds' = startCmds \cup {scanID + 1}
  /\ UNCHANGED <<sortMode, confirm, confirmDeletes, scanStream, deleting,
                 deleteQueue, deleteTotal, deleteDone, deleteErrors,
                 quitted, baseCancelled, prod, recvs, inbox, delCmds,
                 recalcCmds, histVars, env>>
  /\ UNCHANGED frameVars

\* keys.Sort
KeySort ==
  /\ KeysOpen
  /\ sortMode' = nextSortMode(sortMode)
  /\ rows' = sortRows(rows, nextSortMode(sortMode))
  /\ UNCHANGED <<loading, err, warnings, confirm, confirmDeletes, scanID,
                 scanStream, scanVisited, scanFound, deleting, deleteQueue,
                 deleteTotal, deleteDone, deleteErrors, quitted,
                 baseCancelled, scanCancelled, asyncVars, histVars, env>>
  /\ UNCHANGED frameVars

onlyRows == <<loading, err, warnings, sortMode, confirm, confirmDeletes, scanID,
              scanStream, scanVisited, scanFound, deleting, deleteQueue,
              deleteTotal, deleteDone, deleteErrors, quitted,
              baseCancelled, scanCancelled, asyncVars, histVars, env>>

\* m.rows[idx].Deleted guard of toggleMark (line 687) and markAll (line 705)
MayToggle(row) == ~row.Deleted

\* keys.ToggleMark: toggleMark with the table cursor at position cursor
toggleMark(cursor) ==
  /\ KeysOpen
  /\ CursorRow(cursor) # 0
  /\ MayToggle(rows[CursorRow(cursor)])
  /\ rows' = [rows EXCEPT ![CursorRow(cursor)].Marked = ~@]
  /\ UNCHANGED onlyRows
  /\ UNCHANGED frameVars

\* keys.MarkAll: markAll
markAll ==
  /\ KeysOpen
  /\ rows' = [i \in 1..Len(rows) |->
                IF rows[i].Deleted THEN rows[i]
                ELSE [rows[i] EXCEPT !.Marked = TRUE]]
  /\ UNCHANGED onlyRows
  /\ UNCHANGED frameVars

\* keys.ClearMarks: clearMarks
clearMarks ==
  /\ KeysOpen
  /\ rows' = [i \in 1..Len(rows) |-> [rows[i] EXCEPT !.Marked = FALSE]]
  /\ UNCHANGED onlyRows
  /\ UNCHANGED frameVars

\* row.Deleted guard of requestDeleteSelected (line 749) and
\* requestDeleteMarked (line 762)
DeletableAlways(row) == TRUE

Deletable(row) == ~row.Deleted

\* keys.Delete: requestDeleteSelected with the table cursor at position cursor
requestDeleteSelected(cursor) ==
  /\ KeysOpen
  /\ CursorRow(cursor) # 0
  /\ Deletable(rows[CursorRow(cursor)])
  /\ IF confirmDeletes
       THEN /\ confirm' = [active |-> TRUE, action |-> "confirmDeleteOne",
                           paths |-> <<rows[CursorRow(cursor)].RelPath>>]
            /\ UNCHANGED deleteVars
       ELSE /\ startDelete(<<rows[CursorRow(cursor)].RelPath>>)
            /\ UNCHANGED confirm
  /\ UNCHANGED <<rows, loading, err, warnings, sortMode, confirmDeletes,
                 scanID, scanStream, scanVisited, scanFound, quitted,
                 baseCancelled, scanCancelled, startCmds, prod, recvs, inbox,
                 recalcCmds, env>>
  /\ UNCHANGED frameVars

\* the paths of the rows with Marked && !Deleted, in row order
RECURSIVE MarkedPaths(_)
MarkedPaths(rs) ==
  IF rs = <<>> THEN <<>>
  ELSE (IF Head(rs).Marked /\ Deletable(Head(rs)) THEN <<Head(rs).RelPath>> ELSE <<>>)
       \o MarkedPaths(Tail(rs))

\* keys.DeleteMarked: requestDeleteMarked
requestDeleteMarked ==
  /\ KeysOpen
  /\ Len(MarkedPaths(rows)) # 0
  /\ IF confirmDeletes
       THEN /\ confirm' = [active |-> TRUE, action |-> "confirmDeleteMarked",
                           paths |-> MarkedPaths(rows)]
            /\ UNCHANGED deleteVars
       ELSE /\ startDelete(MarkedPaths(rows))
            /\ UNCHANGED confirm
  /\ UNCHANGED <<rows, loading, err, warnings, sortMode, confirmDeletes,
                 scanID, scanStream, scanVisited, scanFound, quitted,
                 baseCancelled, scanCancelled, startCmds, prod, recvs, inbox,
                 recalcCmds, env>>
  /\ UNCHANGED frameVars

\* keys.RecalcSize: requestRecalcSelected with the table cursor at cursor
requestRecalcSelected(cursor) ==
  /\ KeysOpen
  /\ BagCardinality(recalcCmds) < MaxRecalc
  /\ CursorRow(cursor) # 0
  /\ ~rows[CursorRow(cursor)].Deleted
  /\ recalcCmds' = recalcCmds (+) One(rows[CursorRow(cursor)].RelPath)
  /\ UNCHANGED <<ctrlVars, startCmds, prod, recvs, inbox, delCmds, histVars, env>>
  /\ UNCHANGED frameVars

\* keys.ToggleConfirm
KeyToggleConfirm ==
  /\ KeysOpen
  /\ confirmDeletes' = ~confirmDeletes
  /\ UNCHANGED <<rows, loading, err, warnings, sortMode, confirm, scanID,
                 scanStream, scanVisited, scanFound, deleting, deleteQueue,
                 deleteTotal, deleteDone, deleteErrors, quitted,
                 baseCancelled, scanCancelled, asyncVars, histVars, env>>
  /\ UNCHANGED frameVars

\* ------------------------------------------------------------ specification
Producer ==
  \E g \in Gens :
    \/ ScanStartRun(g)
    \/ WalkEnter(g)
   
    \/ DirSizeStep(g)
    \/ ReadDirStep(g)
    \/ Handoff(g)

UpdateScan ==
  \E m \in BagToSet(inbox) :
    \/ UpdateScanStream(m)
    \/ UpdateScanRow(m)
    \/ UpdateScanProgress(m)
    \/ UpdateScanFinished(m)

DeleteKeys ==
  \/ \E path \in BagToSet(delCmds) : UpdateDeleteResult(path)
  \/ KeyConfirmYes
  \/ KeyConfirmNo
  \/ markAll
  \/ clearMarks
  \/ requestDeleteMarked
  \/ KeyToggleConfirm
  \/ KeySort
  \/ \E cursor \in CursorPositions :
       \/ toggleMark(cursor)
       \/ requestDeleteSelected(cursor)

RecalcKeys ==
  \/ \E path \in BagToSet(recalcCmds) : UpdateRecalc(path)
  \/ \E cursor \in CursorPositions : requestRecalcSelected(cursor)

\* The whole program.
Next == Producer \/ UpdateScan \/ startScan \/ KeyQuit \/ DeleteKeys \/ RecalcKeys

Spec == Init /\ [][Next]_vars

\* The scan engine: producers, scan messages, rescans at any moment and
\* quit, with no row ever marked or deleted.
ScanNext == Producer \/ UpdateScan \/ startScan \/ KeyQuit

\* devkill started with its defaults: --confirm is true (main.go).
ScanInit == Init /\ confirmDeletes

ScanSpec == ScanInit /\ [][ScanNext]_vars

\* The rescan key pressed once the running scan has completed.
RescanWhenReady == ~loading /\ startScan

\* The delete pipeline: every key, on a file system that does not fail
\* during the walk, with rescans requested between scans.
DeleteInit ==
  /\ InitModel
  /\ env = 0
  /\ candidate = <<>>
  /\ sortArg = NoSort
  /\ depthArg = NoDir

DeleteNext ==
  Producer \/ UpdateScan \/ RescanWhenReady \/ KeyQuit \/ DeleteKeys \/ RecalcKeys

DeleteSpec == DeleteInit /\ [][DeleteNext]_vars

\* The delete pipeline with the scheduling bubbletea gives: a deleteCmd
\* closure returns and Update takes its result.  Keys are up to the user.
BatchKeys ==
  \/ \E path \in BagToSet(delCmds) : UpdateDeleteResult(path)
  \/ KeyConfirmYes
  \/ KeyConfirmNo
  \/ markAll
  \/ requestDeleteMarked
  \/ \E cursor \in CursorPositions : requestDeleteSelected(cursor)

BatchNext == Producer \/ UpdateScan \/ RescanWhenReady \/ KeyQuit \/ BatchKeys

FairDeleteSpec ==
  /\ DeleteInit
  /\ [][BatchNext]_vars
  /\ WF_vars(\E path \in BagToSet(delCmds) : UpdateDeleteResult(path))


\* Recalculation next to scans, rescans and delete batches, in a file
\* system that may change between the scan and the recalculation.
RecalcInit == Init /\ confirmDeletes

RecalcNext ==
  \/ Producer
  \/ UpdateScan
  \/ RescanWhenReady
  \/ KeyQuit
  \/ RecalcKeys
  \/ \E cursor \in CursorPositions : requestDeleteSelected(cursor)
  \/ KeyConfirmYes
  \/ \E path \in BagToSet(delCmds) : UpdateDeleteResult(path)

RecalcSpec == RecalcInit /\ [][RecalcNext]_vars

\* ------------------------------------------------- deleteCmd taken alone
\* The components candidate paths are built from: empty (a leading, doubled
\* or trailing separator), ".", ".." and names.
Components == {"", ".", "..", "a", "node_modules"}

Candidates == UNION {[1..n -> Components] : n \in 1..MaxComps}

\* deleteCmd's closure runs for the candidate (lines 921-929).
RunDeleteCmd ==
  /\ Running
  /\ delResult = NoMsg
  /\ \E removeErr \in {"nil", "io"} :
       LET v == validateDeletePath(candidate)
       IN  /\ delResult' = deleteCmd(candidate, removeErr)
           /\ removeCalls' = IF v.ok THEN removeCalls \cup {v.path}
                             ELSE removeCalls
  /\ UNCHANGED <<ctrlVars, asyncVars, histVars, env, candidate, sortVars,
                 depthVars>>

\* Update takes that closure's deleteResultMsg (lines 388-393).
TakeDeleteResult ==
  /\ Running
  /\ delResult.kind = "deleteResult"
  /\ applyDeleteResult([Path |-> delResult.Path, Err |-> delResult.Err,
                        Cmd |-> candidate])
  /\ IF ~deleting THEN UNCHANGED delCmds ELSE TRUE
  /\ delResult' = [delResult EXCEPT !.kind = "taken"]
  /\ UNCHANGED <<loading, err, warnings, sortMode, confirm, confirmDeletes,
                 scanID, scanStream, scanVisited, scanFound, deleteTotal,
                 quitted, baseCancelled, scanCancelled, startCmds, prod,
                 recvs, inbox, recalcCmds, env, candidate, removeCalls,
                 sortVars, depthVars>>

\* The first scan fills the table; a deleteCmd closure made for any
\* candidate path runs and Update takes its result.
PathInit ==
  /\ InitModel
  /\ env = 0
  /\ confirmDeletes
  /\ candidate \in Candidates
  /\ sortArg = NoSort
  /\ depthArg = NoDir

PathNext == Producer \/ UpdateScan \/ RunDeleteCmd \/ TakeDeleteResult

PathSpec == PathInit /\ [][PathNext]_vars

\* -------------------------------------------------- sortRows taken alone
SortModes == {"sortBySizeDesc", "sortBySizeAsc", "sortByNameAsc"}

\* Rows whose paths differ, also in case only, and whose sizes tie or not.
SortRowValues ==
  {[NoRow EXCEPT !.RelPath = <<name>>, !.SizeBytes = size, !.Deleted = del] :
     name \in {"a", "target", "Target"}, size \in {1, 2}, del \in BOOLEAN}

SortInputs == UNION {[1..n -> SortRowValues] : n \in 0..MaxSortRows}

\* m.sortRows() on the row set at hand (lines 644-666), up to twice.
ApplySort ==
  /\ sortRes.n < 2
  /\ sortRes' = [rows |-> sortRows(IF sortRes.n = 0 THEN sortArg.rows
                                   ELSE sortRes.rows, sortArg.mode),
                 n |-> sortRes.n + 1]
  /\ UNCHANGED <<ctrlVars, asyncVars, histVars, env, pathVars, sortArg,
                 depthVars>>

SortInit ==
  /\ InitModel
  /\ env = 0
  /\ confirmDeletes
  /\ candidate = <<>>
  /\ sortArg \in [rows : SortInputs, mode : SortModes]
  /\ depthArg = NoDir

SortNext == ApplySort

SortSpec == SortInit /\ [][SortNext]_vars

\* The scan counters next to everything else that reaches Update: rescans at
\* any moment, delete batches started without confirmation (--no-confirm) and
\* recalculations.
CountInit == Init /\ ~confirmDeletes

CountNext ==
  \/ Producer
  \/ UpdateScan
  \/ startScan
  \/ KeyQuit
  \/ RecalcKeys
  \/ \E cursor \in CursorPositions : requestDeleteSelected(cursor)
  \/ \E path \in BagToSet(delCmds) : UpdateDeleteResult(path)

CountSpec == CountInit /\ [][CountNext]_vars

\* ------------------------------- the callback's directory checks taken alone
\* The names of walked directories: plain, of the catalog, of the skip set.
DirNames == {"a", "node_modules", ".git"}

\* The paths fs.WalkDir hands to the callback: the root and what lies below.
WalkedDirs == {RootPath} \cup UNION {[1..n -> DirNames] : n \in 1..MaxComps}

\* The callback runs for the directory with err = nil (lines 67-85): it
\* returns fs.SkipDir, goes on to dirSize and the row, or returns nil so
\* that fs.WalkDir lists the directory.
ApplyDirChecks ==
  /\ depthRes = "none"
  /\ depthRes' = DirVerdict(depthArg.path, depthArg.maxDepth)
  /\ UNCHANGED <<ctrlVars, asyncVars, histVars, env, pathVars, sortVars,
                 depthArg>>

DepthInit ==
  /\ InitModel
  /\ env = 0
  /\ confirmDeletes
  /\ candidate = <<>>
  /\ sortArg = NoSort
  /\ depthArg \in [path : WalkedDirs, maxDepth : 0..MaxDepthFlag]

DepthNext == ApplyDirChecks

DepthSpec == DepthInit /\ [][DepthNext]_vars

\* The scan engine with the scheduling the Go runtime and bubbletea give:
\* a runnable goroutine runs, a command closure that can return returns, and
\* Update takes every message that has been returned.  Keys are up to the
\* user.
FairScanSpec ==
  /\ ScanSpec
  /\ \A g \in Gens :
       /\ WF_vars(ScanStartRun(g))
       /\ WF_vars(WalkEnter(g) \/ DirSizeStep(g) \/ ReadDirStep(g))
       /\ WF_vars(Handoff(g))
  /\ WF_vars(UpdateScan)

\* ------------------------------------------------------------------ claims
MsgsOf(g) == {m \in BagToSet(inbox) : m.ID = g}

\* A scan message of a superseded generation is taken from the inbox.
StaleTaken ==
  /\ Running'
  /\ \E m \in BagToSet(inbox) : m.ID # scanID /\ inbox' = inbox (-) One(m)

\* C1: a scan message whose ID is not the current scanID changes nothing in
\* the controller and issues no receive, and every row of the row set was
\* reported by the scan of the current generation.
C1_StaleDiscarded ==
  /\ [](\A i \in 1..Len(rows) : rows[i].gen = scanID)
  /\ [][StaleTaken => UNCHANGED <<ctrlVars, recvs>>]_vars

\* A row reported by the cancelled generation is in flight while the row
\* set already holds a row of the new generation.
C1_Witness ==
  /\ scanID > 1
  /\ Len(rows) > 0
  /\ \E m \in BagToSet(inbox) : m.kind = "scanRow" /\ m.ID < scanID

InFlight == BagCardinality(delCmds)

\* C2: at most one deletion is in flight and at most one queue is active;
\* while a batch is active a step that consumes no result (a further
\* startDelete included) leaves the queue, its counters and the deletion in
\* flight as they are.
C2_OneDeleteInFlight ==
  /\ [](Running => InFlight <= 1 /\ (deleting <=> InFlight = 1))
  /\ [][Running' /\ deleting /\ deleting' /\ deleteDone' = deleteDone
          => UNCHANGED <<deleteQueue, deleteTotal, deleteErrors, delCmds>>]_vars

\* A second delete request waits for its answer while a batch is running.
C2_Witness == deleting /\ confirm.active /\ InFlight = 1

\* C3: a batch of N paths dispatches its paths one by one in queue order,
\* the next one only when the result of the one before has been applied,
\* each result is the result for the path dispatched, and the batch ends
\* with the N-th result.
C3_SequentialInOrder ==
  /\ [](Running /\ deleting =>
          /\ Len(batch) >= 1
          /\ \A i, j \in 1..Len(batch) : i # j => batch[i] # batch[j]
          /\ Len(consumed) = deleteDone
          /\ consumed = SubSeq(batch, 1, deleteDone)
          /\ dispatched = SubSeq(batch, 1, deleteDone + 1)
          /\ delCmds = One(batch[deleteDone + 1]))
  /\ [][deleting /\ ~deleting'
          => dispatched = batch /\ deleteDone' = Len(batch) /\ InFlight' = 0]_vars

\* The second path of a two-path batch is in flight.
C3_Witness == deleting /\ Len(batch) = 2 /\ deleteDone = 1

\* C4: no row is both deleted and marked.
C4_DeletedNeverMarked ==
  \A i \in 1..Len(rows) : ~(rows[i].Deleted /\ rows[i].Marked)

\* A deleted row next to a marked one.
C4_Witness ==
  \E i, j \in 1..Len(rows) : rows[i].Deleted /\ rows[j].Marked

\* C5: a deleted row is never marked again and no deletion is dispatched
\* for its path any more.
C5_DeletedNeverRedispatched ==
  \A i \in 1..Len(rows) :
    rows[i].Deleted => ~rows[i].Marked /\ ~BagIn(rows[i].RelPath, delCmds)

C7_OnlyCompletionAfterCancel ==
  \A g \in Gens : prod[g].late \subseteq {"scanFinished"}

\* C8: a producer whose scan was cancelled terminates.
C8_CancelledProducerTerminates ==
  \A g \in Gens :
    [](g \in scanCancelled => <>(prod[g].pc = "closed" \/ quitted))

\* The file system failures met so far
FaultsMet == MaxEnvEvents - env

\* C9: the completion event of a scan that ended by cancellation carries no
\* error, and a cancellation adds no warning: there are never more warnings
\* than permission failures met.
C9_CancelIsNoError ==
  /\ err # "canceled"
  /\ \A g \in Gens :
      /\ (prod[g].sawCancel # "no" /\ prod[g].pc = "sendFinished")
           => Outgoing(g).Err = "nil"
      /\ prod[g].sawCancel # "no" =>
           \A m \in MsgsOf(g) : m.kind = "scanFinished" => m.Err = "nil"
      /\ Len(prod[g].warnings) <= FaultsMet
      /\ \A m \in MsgsOf(g) : Len(m.Warnings) <= FaultsMet

\* A scan cancelled during the size computation of a matched directory is
\* about to send its completion event.
C9_Witness ==
  \E g \in Gens : prod[g].sawCancel = "dirSize" /\ prod[g].pc = "sendFinished"

\* C10: in every state of the running program a quit key ends it.
C10_QuitAlwaysTerminates == Running => ENABLED KeyQuit


\* The batch startDelete sets up for the path list paths
BatchStarted(paths) ==
  /\ deleting'
  /\ deleteQueue' = paths
  /\ deleteTotal' = Len(paths)
  /\ deleteDone' = 0
  /\ deleteErrors' = 0
  /\ delCmds' = delCmds (+) One(paths[1])

\* C11: n, N or esc to a pending confirmation clears the confirmation and
\* leaves the rows, the delete queue, its counters and the deletion in
\* flight as they are.
C11_NoAnswerOnlyClears ==
  [][(\E k \in {"n", "N", "esc"} : ConfirmKey(k))
       => confirm' = confirmState0 /\ UNCHANGED <<rows, deleteVars>>]_vars

\* Both rows are marked and the confirmation for the two of them is pending.
C11_Witness ==
  /\ confirm.active
  /\ Len(confirm.paths) = 2
  /\ \A i \in 1..Len(rows) : rows[i].Marked /\ ~rows[i].Deleted

\* C12: y or Y to a pending confirmation clears it, makes its path list the
\* delete queue (deleteTotal its length, deleteDone 0) and dispatches the
\* first path, in every state in which a confirmation is pending.
C12_YesStartsBatch ==
  [][(\E k \in {"y", "Y"} : ConfirmKey(k))
       => confirm' = confirmState0 /\ BatchStarted(confirm.paths)]_vars

\* The paths of the rows that are marked and not deleted
MarkedTargets == {rows[i].RelPath : i \in {j \in 1..Len(rows) :
                                           rows[j].Marked /\ ~rows[j].Deleted}}

\* paths lists the set S once each, in row order
ListsInRowOrder(paths, S) ==
  /\ Len(paths) = Cardinality(S)
  /\ {paths[i] : i \in 1..Len(paths)} = S
  /\ \A i, j \in 1..Len(paths) : i < j => findRow(paths[i]) < findRow(paths[j])

\* A delete request for paths was turned into a confirmation.
Asked(paths) ==
  /\ confirm'.active
  /\ confirm'.paths = paths
  /\ UNCHANGED <<rows, deleteVars>>

\* A delete request with an empty target set changes nothing: the handler
\* returns without a step.
NoEmptyRequest ==
  /\ \A cursor \in CursorPositions :
       (CursorRow(cursor) = 0 \/ rows[CursorRow(cursor)].Deleted)
         => ~ENABLED requestDeleteSelected(cursor)
  /\ MarkedTargets = {} => ~ENABLED requestDeleteMarked

\* The selected row at cursor can be asked to be deleted.
Selectable(cursor) ==
  KeysOpen /\ CursorRow(cursor) # 0 /\ ~rows[CursorRow(cursor)].Deleted

\* With confirmation on, a delete request with a target opens the
\* confirmation for it.
OnAsks ==
  confirmDeletes =>
    /\ \A cursor \in CursorPositions : Selectable(cursor) =>
         ENABLED (requestDeleteSelected(cursor)
                    /\ Asked(<<rows[CursorRow(cursor)].RelPath>>))
    /\ (KeysOpen /\ MarkedTargets # {}) =>
         ENABLED (requestDeleteMarked /\ Asked(confirm'.paths))

\* With confirmation off, a delete request with a target starts its batch.
OffStarts ==
  ~confirmDeletes =>
    /\ \A cursor \in CursorPositions : Selectable(cursor) =>
         ENABLED (requestDeleteSelected(cursor)
                    /\ BatchStarted(<<rows[CursorRow(cursor)].RelPath>>))
    /\ (KeysOpen /\ MarkedTargets # {}) =>
         ENABLED (requestDeleteMarked /\ BatchStarted(deleteQueue'))

\* With confirmation off and a batch active, a delete request changes
\* nothing.
OffIgnoredWhileDeleting ==
  (~confirmDeletes /\ deleting) =>
    /\ \A cursor \in CursorPositions :
         ~ENABLED (requestDeleteSelected(cursor) /\ vars' # vars)
    /\ ~ENABLED (requestDeleteMarked /\ vars' # vars)

\* A batch starts only by an affirmative answer or with confirmation off.
StartsOnlyConfirmed ==
  (~deleting /\ deleting') => (confirm.active /\ ~confirm'.active) \/ ~confirmDeletes

\* C13: with confirmation on, a delete request dispatches nothing until its
\* confirmation is answered with yes; with confirmation off the same request
\* starts the batch at once without a confirmation; a request with an
\* empty target set or for a deleted selected row does neither.
C13_RequestAsksFirst ==
  /\ []NoEmptyRequest
  /\ []OnAsks
  /\ []OffStarts
  /\ [][StartsOnlyConfirmed]_vars
  /\ [][\A cursor \in CursorPositions : requestDeleteSelected(cursor) =>
          LET paths == <<rows[CursorRow(cursor)].RelPath>>
          IN  IF confirmDeletes THEN Asked(paths)
              ELSE ~confirm'.active /\ BatchStarted(paths)]_vars
  /\ [][requestDeleteMarked =>
          IF confirmDeletes
            THEN Asked(confirm'.paths) /\ ListsInRowOrder(confirm'.paths, MarkedTargets)
            ELSE /\ ~confirm'.active
                 /\ BatchStarted(deleteQueue')
                 /\ ListsInRowOrder(deleteQueue', MarkedTargets)]_vars

\* C13 with the case of a running batch: with confirmation off a delete
\* request starts the batch at once when no batch is active, and changes
\* nothing when one is.
C13_RequestAsksFirstUnlessDeleting ==
  /\ []NoEmptyRequest
  /\ []OnAsks
  /\ [](~deleting => OffStarts)
  /\ []OffIgnoredWhileDeleting
  /\ [][StartsOnlyConfirmed]_vars
  /\ [][\A cursor \in CursorPositions : requestDeleteSelected(cursor) =>
          LET paths == <<rows[CursorRow(cursor)].RelPath>>
          IN  IF confirmDeletes THEN Asked(paths)
              ELSE /\ ~confirm'.active
                   /\ IF deleting THEN UNCHANGED <<rows, deleteVars>>
                      ELSE BatchStarted(paths)]_vars
  /\ [][requestDeleteMarked =>
          IF confirmDeletes
            THEN Asked(confirm'.paths) /\ ListsInRowOrder(confirm'.paths, MarkedTargets)
            ELSE /\ ~confirm'.active
                 /\ IF deleting THEN UNCHANGED <<rows, deleteVars>>
                    ELSE /\ BatchStarted(deleteQueue')
                         /\ ListsInRowOrder(deleteQueue', MarkedTargets)]_vars

\* With confirmation off a batch of two marked rows runs, next to no
\* confirmation.
C13_Witness ==
  /\ ~confirmDeletes
  /\ ~confirm.active
  /\ deleting
  /\ Len(deleteQueue) = 2
  /\ deleteDone = 0

\* C14: when a batch has ended, deleteErrors is the number of its results
\* that carried an error.
C14_TallyCountsFailures == ~deleting => deleteErrors = failures

\* C15: once a batch is started the controller leaves the deleting state
\* whatever the results carry and whatever keys come in between; by then
\* every path of the batch has been dispatched, and a result that is not the
\* last one, failed or not, dispatches the next path.
BatchEnds == deleting /\ ~deleting' /\ Running'

Invalid(path) ==
  \/ path = <<"">>
  \/ IsAbs(path)
  \/ Clean(path) \in {<<".">>, <<"", "">>}

LeavesRoot(path) == Clean(path)[1] = ".."

\* C17: validateDeletePath fails for the empty path, an absolute path, a path
\* that normalizes to the root and a path that normalizes to one whose first
\* component is ".."; otherwise it returns the normalized path, which is the
\* one removed.
C17_AcceptsOnlyInsideRoot ==
  delResult # NoMsg
    => IF Invalid(candidate) \/ LeavesRoot(candidate)
         THEN removeCalls = {} /\ delResult.Err = "invalid"
         ELSE removeCalls = {Clean(candidate)}
              /\ delResult.Path = Clean(candidate)

\* p is a proper ancestor of q
ProperAncestor(p, q) == p # q /\ IsPrefix(p, q)

\* The directory at position i of the tree matches the catalog
MatchedDir(i) == Tree[i].kind = "dir" /\ BaseName(Tree[i].path) \in Targets

\* The entry at position i lies below a directory that matches the catalog
BelowMatch(i) ==
  \E k \in 1..Len(Tree) :
    MatchedDir(k) /\ ProperAncestor(Tree[k].path, Tree[i].path)

\* The directories the walk may enter, and those among them that match
Enterable == {i \in 1..Len(Tree) : Tree[i].kind = "dir" /\ ~BelowMatch(i)}

Reportable == {i \in Enterable : MatchedDir(i)}

\* C18: no row's path is a proper ancestor of another row's path; the walk
\* is never at an entry below a directory that matches the catalog, and it
\* counts and reports no directory below one.
C18_LeafReporting ==
  /\ \A i, j \in 1..Len(rows) :
       ~ProperAncestor(rows[i].RelPath, rows[j].RelPath)
  /\ \A g \in Gens :
       /\ prod[g].pos \in 1..Len(Tree) => ~BelowMatch(prod[g].pos)
       /\ prod[g].visited <= Cardinality(Enterable)
       /\ prod[g].found <= Cardinality(Reportable)

C18_Witness ==
  /\ ~loading
  /\ Len(rows) = Cardinality(Reportable)
  /\ scanVisited = Cardinality(Enterable)
  /\ \E i \in 1..Len(Tree) : BelowMatch(i) /\ MatchedDir(i)

\* The sum of the sizes of the regular files under relPath
RECURSIVE SumRegular(_, _)
SumRegular(relPath, i) ==
  IF i > Len(Tree) THEN 0
  ELSE (IF InSubtree(relPath, Tree[i].path) /\ Tree[i].kind = "file"
          THEN Tree[i].size ELSE 0) + SumRegular(relPath, i + 1)

\* C19: the size each discovery event carries, and so the size of each row
\* of the scan, is the sum of the sizes of the regular files under the
\* matched directory; symbolic links add nothing.
C19_SizeIsRegularFiles ==
  /\ \A m \in BagToSet(inbox) :
       m.kind = "scanRow" => m.Row.SizeBytes = SumRegular(m.Row.RelPath, 1)
  /\ \A i \in 1..Len(rows) : rows[i].SizeBytes = SumRegular(rows[i].RelPath, 1)

\* The producer of generation g meets a permission failure in this step: a
\* warning is added.
WarningAdded(g) == Len(prod'[g].warnings) = Len(prod[g].warnings) + 1

\* The walk of generation g ends on a failure in this step.
WalkFails(g) ==
  prod[g].walkErr = "nil" /\ prod'[g].walkErr \notin {"nil", "canceled"}

\* The producer of generation g hands its completion event over in this step.
FinishedSent(g) == prod[g].pc = "sendFinished" /\ prod'[g].pc = "closed"

\* The matching directories a completion event accounts for by a warning:
\* those at or below a path it warns about.
Warned(warns) ==
  {i \in Reportable :
     \E k \in 1..Len(warns) : InSubtree(warns[k], Tree[i].path)}

SameRows(rs, qs) ==
  /\ Len(rs) = Len(qs)
  /\ \A x \in SortRowValues :
       Cardinality({i \in 1..Len(rs) : rs[i] = x})
         = Cardinality({i \in 1..Len(qs) : qs[i] = x})

\* rs has every deleted row behind every row that is not
DeletedLast(rs) ==
  \A i, j \in 1..Len(rs) : rs[i].Deleted /\ ~rs[j].Deleted => j < i

\* rs has rows of one size, both deleted or both not, in the order of their
\* lower-case paths
TiesByPath(rs) ==
  \A i, j \in 1..Len(rs) :
    /\ i < j
    /\ rs[i].Deleted = rs[j].Deleted
    /\ rs[i].SizeBytes = rs[j].SizeBytes
    => ~PathLess(rs[j].RelPath, rs[i].RelPath)

\* C21: in each sort mode sortRows leaves the same rows with the deleted
\* ones last and rows of equal size in the order of their lower-case paths,
\* and applying it again changes nothing.
C21_SortIdempotent ==
  /\ [](sortRes.n >= 1
          => /\ SameRows(sortRes.rows, sortArg.rows)
             /\ DeletedLast(sortRes.rows)
             /\ TiesByPath(sortRes.rows))
  /\ [][sortRes.n = 1 /\ sortRes'.n = 2 => sortRes'.rows = sortRes.rows]_vars

C21_Witness ==
  /\ sortRes.n = 2
  /\ sortRes.rows # sortArg.rows
  /\ \E i, j \in 1..Len(sortRes.rows) :
       /\ i < j
       /\ sortRes.rows[i].RelPath = <<"Target">>
       /\ sortRes.rows[j].RelPath = <<"target">>
       /\ sortRes.rows[i].SizeBytes = sortRes.rows[j].SizeBytes
  /\ \E i \in 1..Len(sortRes.rows) : sortRes.rows[i].Deleted

\* rows' differs from rows in the marked flag of rows that are not deleted,
\* and in nothing else
OnlyMarksChange ==
  /\ Len(rows') = Len(rows)
  /\ \A i \in 1..Len(rows) :
       /\ [rows'[i] EXCEPT !.Marked = rows[i].Marked] = rows[i]
       /\ rows[i].Deleted => rows'[i] = rows[i]

\* A mark key is taken in this step
MarkStep ==
  markAll \/ clearMarks \/ \E cursor \in CursorPositions : toggleMark(cursor)

\* C22: the mark keys are taken in every state of the running program, the
\* confirmation included; they change the marked flag of rows that are not
\* deleted and nothing else, the delete queue, its counters and the deletion
\* in flight least of all.
C22_MarksAlwaysTaken ==
  /\ [](Running
          => /\ ENABLED markAll
             /\ ENABLED clearMarks
             /\ \A cursor \in CursorPositions :
                  CursorRow(cursor) # 0 /\ ~rows[CursorRow(cursor)].Deleted
                    => ENABLED toggleMark(cursor))
  /\ [][MarkStep => OnlyMarksChange /\ UNCHANGED deleteVars]_vars

\* Update takes the result of the recalculation of path in this step
RecalcTaken(path) ==
  /\ Running'
  /\ BagIn(path, recalcCmds)
  /\ recalcCmds' = recalcCmds (-) One(path)

\* C23: the step that applies a recalculation result changes at most the
\* size of the first row with the result's path, to the size measured (the
\* size of the scan unless the directory has changed since), and it changes
\* neither another field or row nor the delete queue, its counters, the
\* confirmation, loading or the scan generation.
C23_RecalcWritesOneSize ==
  [][\A path \in BagToSet(recalcCmds) :
       RecalcTaken(path)
         => /\ UNCHANGED <<deleteVars, confirm, loading, scanID, sortMode>>
            /\ Len(rows') = Len(rows)
            /\ \A i \in 1..Len(rows) :
                 \/ rows'[i] = rows[i]
                 \/ /\ i = findRow(path)
                    /\ rows'[i] = [rows[i] EXCEPT !.SizeBytes =
                                     IF env' = env THEN dirSize(path) ELSE 0]]_vars

C23_Witness ==
  /\ deleting
  /\ loading
  /\ \E i \in 1..Len(rows) : rows[i].SizeBytes = 0

\* C24: the scan generation is 1 plus the number of rescans made; it changes
\* by a rescan only and then by exactly 1, and the rescan leaves the context
\* of the scan before cancelled, no rows, no warnings, no error, both
\* counters at 0 and the controller scanning.
C24_RescanStartsAfresh ==
  /\ [](scanID = 1 + Cardinality(scanCancelled))
  /\ [][startScan => scanID' = scanID + 1]_vars
  /\ [][scanID' # scanID
          => /\ scanID' = scanID + 1
             /\ scanCancelled' = scanCancelled \cup {scanID}
             /\ rows' = <<>>
             /\ warnings' = <<>>
             /\ err' = "nil"
             /\ scanVisited' = 0
             /\ scanFound' = 0
             /\ loading']_vars

C24_Witness ==
  /\ scanID = 2
  /\ CtxCancelled(1)
  /\ Running
  /\ rows = <<>>
  /\ loading
  /\ scanVisited = 0
  /\ prod[1].found > 0

\* rs holds the rows of qs, each as often as qs does
Permutation(rs, qs) ==
  /\ Len(rs) = Len(qs)
  /\ \A k \in 1..Len(qs) :
       Cardinality({i \in 1..Len(rs) : rs[i] = qs[k]})
         = Cardinality({i \in 1..Len(qs) : qs[i] = qs[k]})

\* Update applies the completion event of the current generation in this
\* step.
CompletionApplied == loading /\ ~loading' /\ Running'

\* C25: a scan that no rescan supersedes and no quit ends gets its completion
\* event to the controller, which then stops loading; the step that applies
\* the event takes over its error and warnings and keeps the rows received,
\* whatever the walk ended with.
C25_ScanCompletes ==
  /\ \A g \in Gens :
       (scanID = g /\ loading) ~> (~loading \/ scanID # g \/ quitted)
  /\ [][CompletionApplied
          => \E m \in BagToSet(inbox) :
               /\ m.kind = "scanFinished"
               /\ m.ID = scanID
               /\ err' = m.Err
               /\ warnings' = m.Warnings
               /\ Permutation(rows', rows)]_vars

C25_Witness ==
  /\ ~loading
  /\ Running
  /\ err = "io"
  /\ Len(rows) = 1
  /\ scanID = 2

\* The commands of generation g that hold or await one of its events: the
\* waitScanMsg closures blocked on its channel and the scan messages a
\* command returned that Update has not taken yet.
Outstanding(g) ==
  recvs[g] + BagCardinality([m \in MsgsOf(g) |-> CopiesIn(m, inbox)])

\* the place of a directory in the order fs.WalkDir visits the tree
WalkIndex(path) == CHOOSE i \in 1..Len(Tree) : Tree[i].path = path

\* Update appends a row in this step.
RowApplied == Running' /\ Len(rows') = Len(rows) + 1

\* C26: at most one receive is outstanding on the channel of the current
\* scan, counting the one whose message Update has not taken yet, so the
\* producer cannot hand over its next event before the last one was applied;
\* the row Update appends is the row the producer sent last, its found-th,
\* it goes to the end of the row set and every row the set holds was
\* discovered before it.
C26_OneReceiveInOrder ==
  /\ [](Running => Outstanding(scanID) <= 1)
  /\ [][RowApplied
          => LET r == rows'[Len(rows')]
                 p == prod[scanID]
             IN  /\ rows' = Append(rows, r)
                 /\ scanRowMsg(scanID, r) \in BagToSet(inbox)
                 /\ recvs[scanID] = 0
                 /\ p.pc = "sendRowProgress"
                 /\ Tree[p.pos].path = r.RelPath
                 /\ p.found = Len(rows')
                 /\ \A i \in 1..Len(rows) :
                      WalkIndex(rows[i].RelPath) < WalkIndex(r.RelPath)]_vars

C26_Witness ==
  /\ Running /\ loading /\ scanID = 2
  /\ Len(rows) = 2
  /\ recvs[scanID] = 1
  /\ prod[scanID].pc = "sendRowProgress"

\* The depth of a walked directory counted from the root: the root has
\* depth 0, its direct children depth 1.
DepthFromRoot(path) == IF path = RootPath THEN 0 ELSE Len(path)

\* C27: with a positive maximum depth D the callback skips every directory
\* whose depth from the root exceeds D, so the directory of a row has at
\* most D path components; with maximum depth 0 only a name of the skip set
\* makes it skip a directory.
C27_DepthBound ==
  depthRes # "none"
    => LET D == depthArg.maxDepth
           path == depthArg.path
       IN  /\ D > 0 /\ DepthFromRoot(path) > D => depthRes = "skip"
           /\ D > 0 /\ depthRes = "match" => Len(path) <= D
           /\ D = 0 /\ depthRes = "skip" => BaseName(path) \in SkipDirs

\* C29: 0 <= deleteErrors <= deleteDone <= deleteTotal; while deleting,
\* deleteTotal is the length of the delete queue and deleteDone is less, so
\* the index of the next path lies within the queue; while not deleting the
\* delete queue is empty.
C29_DeleteCounters ==
  /\ 0 <= deleteErrors
  /\ deleteErrors <= deleteDone
  /\ deleteDone <= deleteTotal
  /\ deleting => /\ deleteTotal = Len(deleteQueue)
                 /\ deleteDone < deleteTotal
                 /\ NextIndex(deleteDone) \in 1..Len(deleteQueue)
  /\ ~deleting => deleteQueue = <<>>

C29_Witness ==
  /\ deleting
  /\ deleteTotal = 2
  /\ deleteDone = 1
  /\ deleteErrors = 1

\* path is the path of a row that the scan of the current generation reported
CurrentRow(path) ==
  \E i \in 1..Len(rows) : rows[i].RelPath = path /\ rows[i].gen = scanID

\* C28: while a confirmation is pending or a batch runs, every path of the
\* confirmation list and of the delete queue is the path of a row of the
\* current generation, and a delete result of the running batch changes
\* only a row of the generation at which the batch took its paths.
C28_ListsFollowGeneration ==
  /\ [](confirm.active
          => \A k \in 1..Len(confirm.paths) : CurrentRow(confirm.paths[k]))
  /\ [](deleting => \A k \in 1..Len(deleteQueue) : CurrentRow(deleteQueue[k]))
  /\ [][Running' /\ deleting /\ deleteDone' = deleteDone + 1
          => \A i \in 1..Len(rows) :
               rows'[i] # rows[i] => rows[i].gen = batchGen]_vars

\* C30: in every state, so after every event Update has processed, the
\* found counter is the number of rows of the row set; both are 0 right
\* after a rescan, and the step that applies the completion event of the
\* current generation leaves both at the found count the event carries.
C30_FoundCountsRows ==
  /\ [](scanFound = Len(rows))
  /\ [][Running' /\ scanID' # scanID => scanFound' = 0 /\ rows' = <<>>]_vars
  /\ [][CompletionApplied
          => \E m \in BagToSet(inbox) :
               /\ m.kind = "scanFinished"
               /\ m.ID = scanID
               /\ scanFound' = m.Found
               /\ Len(rows') = m.Found]_vars

C30_Witness ==
  /\ Running /\ loading /\ deleting
  /\ scanID = 2
  /\ scanFound = 1 /\ Len(rows) = 1
  /\ prod[2].pc = "sendProgress"
  /\ \E m \in BagToSet(inbox) : m.ID = 1 /\ m.kind = "scanProgress" /\ m.Found = 2

====
